---- MODULE Spec2Model ----
(***************************************************************************)
(* Model of the application / job / notification cross-referencing layer   *)
(* of the job-board backend (routes/applications.js, routes/jobs.js,       *)
(* routes/notifications.js).                                               *)
(*                                                                         *)
(* Every request handler is an async function; it runs synchronously from  *)
(* one awaited store call to the next.  One action of the model is one     *)
(* store call together with the synchronous code that follows it, up to    *)
(* the point where the next store call is issued (or the response sent).   *)
(* Requests in flight live in `reqs`, one per slot; the collections of the *)
(* document store are `jobs`, `apps` and `notifs`.  The slots of Workers   *)
(* carry concurrent traffic; slot Client is a single caller that issues    *)
(* one request after the other and whose last response is kept in `resp`.  *)
(*                                                                         *)
(* Ids are modelled in the canonical form the server hands out: a positive *)
(* number n stands for the n-th ObjectId generated for that collection.    *)
(* The users collection is never written by any modelled route, so the     *)
(* users.findOne lookups are folded into the neighbouring store call; the  *)
(* get-or-create calls of notificationCollection touch nothing but the     *)
(* existence of the notifications collection and are folded into the       *)
(* insert that follows them.  The job postings exist from the start (POST  *)
(* /jobs/create has run).  Store calls can fail for the single caller; the *)
(* concurrent traffic runs against a store that is up.                     *)
(***************************************************************************)
EXTENDS Integers, Sequences, FiniteSets, TLC

\* ---- bounds of the model -------------------------------------------------
MaxJobs == 1
MaxApps == 2
MaxNotifs == 2
MaxClock == 1
MaxSaved == 2
MaxReviews == 2

\* ---- the users behind the bearer tokens ----------------------------------
Employers == {"e1", "e2"}
Jobseekers == {"j1"}
Users == Employers \cup Jobseekers
Role(u) == IF u \in Employers THEN "employer" ELSE "jobseeker"
\* the employer who posted the jobs, and the users who try to apply
Poster == "e1"
Applicants == {"j1", "e2"}

Workers == {"w1", "w2"}
Client == "c"
Slots == Workers \cup {Client}
Titles == {"t1"}
TitleInputs == {""}
CoverLetters == {"", "Hi"}
ActiveInputs == {"undef", "true", "false"}

\* ---- id inputs: a missing field, a malformed id, or a well-formed id ------
MissingId == -1
BadId == 0
JobIds == 1..MaxJobs
JobIdInputs == {MissingId, BadId} \cup JobIds
AppIdInputs == {BadId} \cup (1..MaxApps)
IsValidObjectId(id) == id >= 1

validStatuses == {"Pending", "Reviewed", "Interviewing", "Hired", "Rejected"}
StatusInputs == {"", "Bogus", "Pending", "Hired"}

VARIABLES jobs, apps, notifs, nextApp, nextNotif, now, reqs, resp,
          saved, nextSaved, reviews, nextReview, lastAvg, listing,
          db, connectCalls, dbHandles, callers, sent

vars == <<jobs, apps, notifs, nextApp, nextNotif, now, reqs, resp,
          saved, nextSaved, reviews, nextReview, lastAvg, listing,
          db, connectCalls, dbHandles, callers, sent>>

store == <<jobs, apps, notifs, nextApp, nextNotif>>

\* the savedJobs collection
savedStore == <<saved, nextSaved>>

\* the reviews collection, and the last answer of getJobseekerAverageRating
reviewStore == <<reviews, nextReview, lastAvg>>

\* the module state of db.js, the calls made on the client, and the callers
\* of connectDB
connection == <<db, connectCalls, dbHandles, callers>>

\* what the application, job and notification routes never touch: the other
\* collections, and the body of the last listing sent
side == <<savedStore, reviewStore, listing, connection>>

\* what the saved-job routes, and what the review routes, never touch
notSaved == <<store, now, reviewStore, listing, connection>>
notReview == <<store, now, savedStore, listing, connection>>

\* a rating as it arrives in the request body: absent, a number, or a string
\* of digits (form-encoded bodies carry strings)
NoRating == [kind |-> "none", val |-> 0]
Num(v) == [kind |-> "number", val |-> v]
Str(v) == [kind |-> "string", val |-> v]

IdleReq == [op |-> "none", pc |-> "idle", user |-> "e1", jobId |-> BadId,
            appId |-> BadId, status |-> "", coverLetter |-> "", title |-> "",
            active |-> "undef", job |-> {}, app |-> {}, newId |-> 0,
            subject |-> "", rating |-> NoRating, list |-> {},
            notifId |-> BadId, spelling |-> "lower"]

\* an average as the store computes it: null, or the quotient num / den
Null == [null |-> TRUE, num |-> 0, den |-> 1]
Quot(n, d) == [null |-> FALSE, num |-> n, den |-> d]
NoAverage == [subject |-> "", averageRating |-> Null, reviewCount |-> 0]

\* `let db;` before the first assignment
Undefined == 0
\* a caller of connectDB: outside the call, awaiting client.connect(), or
\* holding the handle the call returned
NotCalling == [pc |-> "out", got |-> Undefined]

\* the last response to the single caller; `sent` counts the responses sent
\* to the single caller's current request
NoResponse == [code |-> 0, msg |-> ""]

PostedJob(k) == [id |-> k, employerId |-> Poster, title |-> "t1",
                 active |-> TRUE, applications |-> <<>>]

Init ==
    /\ jobs = {PostedJob(k) : k \in JobIds}
    /\ apps = {}
    /\ notifs = {}
    /\ nextApp = 1
    /\ nextNotif = 1
    /\ now = 0
    /\ reqs = [r \in Slots |-> IdleReq]
    /\ resp = NoResponse
    /\ saved = {}
    /\ nextSaved = 1
    /\ reviews = {}
    /\ nextReview = 1
    /\ lastAvg = NoAverage
    /\ listing = {}
    /\ db = Undefined
    /\ connectCalls = 0
    /\ dbHandles = 0
    /\ callers = [r \in Slots |-> NotCalling]
    /\ sent = 0

\* ---- the store's queries ---------------------------------------------------
FindJob(id) == {j \in jobs : j.id = id}
FindOwnJob(id, u) == {j \in jobs : j.id = id /\ j.employerId = u}
FindApp(id) == {a \in apps : a.id = id}
\* faulty variant of the lookup below: filters on the wrong user field
FindApplicationOfEmployer(k, u) ==
    {a \in apps : a.jobId = k /\ a.employerId = u}

FindApplication(k, u) == {a \in apps : a.jobId = k /\ a.applicantId = u}
TheOne(S) == CHOOSE x \in S : TRUE

\* the fields of a fetched document that the handler reads afterwards
JobRead(S) == {[employerId |-> j.employerId, title |-> j.title] : j \in S}
AppRead(S) == {[applicantId |-> a.applicantId, jobId |-> a.jobId] : a \in S}

\* ---- requests ----------------------------------------------------------------
\* a request arrives in slot r; its token resolves to user u
Arrive(r, o, u, k, a, s, cl, t, act) ==
    /\ reqs[r].pc = "idle"
    /\ reqs' = [reqs EXCEPT ![r] =
                  [IdleReq EXCEPT !.op = o, !.pc = "start", !.user = u,
                                  !.jobId = k, !.appId = a, !.status = s,
                                  !.coverLetter = cl, !.title = t,
                                  !.active = act]]
    /\ resp' = IF r = Client THEN NoResponse ELSE resp
    /\ sent' = IF r = Client THEN 0 ELSE sent
    /\ UNCHANGED <<store, now, side>>

\* res.status(c).json({message: m}) ends the request of slot r
Respond(r, c, m) ==
    /\ reqs' = [reqs EXCEPT ![r] = IdleReq]
    /\ resp' = IF r = Client THEN [code |-> c, msg |-> m] ELSE resp
    /\ sent' = IF r = Client THEN sent + 1 ELSE sent

\* the handler of slot r awaits its next store call at p
Await(r, rq, p) ==
    /\ reqs' = [reqs EXCEPT ![r] = [rq EXCEPT !.pc = p]]
    /\ UNCHANGED <<resp, sent>>

Continue(r, p) == Await(r, reqs[r], p)

ErrorMessage(o) ==
    CASE o = "apply" -> "Error submitting application"
      [] o = "withdraw" -> "Error withdrawing application"
      [] o = "setStatus" -> "Error updating application status"
      [] o = "updateJob" -> "Error updating job posting"
      [] o = "save" -> "Error saving job"
      [] o = "unsave" -> "Error removing saved job"
      [] o = "review" -> "Error submitting review"
      [] o = "rating" -> "Error fetching reviews"
      [] o \in {"myApplications", "employerApplications"} ->
            "Error fetching applications"
      [] o = "markRead" -> "Error marking notification as read"
      [] o = "markAllRead" -> "Error marking all notifications as read"
      [] o = "deleteNotif" -> "Error deleting notification"
      [] OTHER -> "Error deleting job posting"

\* the outcomes of a store call issued from slot r: TRUE, it is carried out;
\* FALSE, it rejects
Outcomes(r) == IF r = Client THEN {TRUE, FALSE} ELSE {TRUE}

\* a store call rejects: the handler's catch block answers 500
Throw(r) ==
    /\ Respond(r, 500, ErrorMessage(reqs[r].op))
    /\ UNCHANGED <<store, now, side>>

\* requests that may still insert an Application / a Notification
ApplyInFlight == {r \in Slots : reqs[r].op = "apply"
                     /\ reqs[r].pc \in {"start", "a_findJob", "a_findExisting",
                                        "a_insert"}}
NotifyInFlight == {r \in Slots : reqs[r].op \in {"apply", "setStatus"}}

\* ---- createNotification ----------------------------------------------------
\* faulty variant of the notification below: addressed to the requester
NotificationToSender(rq) ==
    [id |-> nextNotif, recipientId |-> rq.user, senderId |-> rq.user,
     type |-> IF rq.op = "apply" THEN "job_application"
              ELSE "application_status",
     jobTitle |-> TheOne(rq.job).title,
     status |-> IF rq.op = "apply" THEN "" ELSE rq.status,
     relatedId |-> IF rq.op = "apply" THEN rq.newId ELSE rq.appId,
     isRead |-> FALSE]

\* the document createNotification builds from the handler's arguments
NotificationOf(rq) ==
    IF rq.op = "apply"
    THEN [id |-> nextNotif, recipientId |-> TheOne(rq.job).employerId,
          senderId |-> rq.user, type |-> "job_application",
          jobTitle |-> TheOne(rq.job).title, status |-> "",
          relatedId |-> rq.newId, isRead |-> FALSE]
    ELSE [id |-> nextNotif, recipientId |-> TheOne(rq.app).applicantId,
          senderId |-> rq.user, type |-> "application_status",
          jobTitle |-> TheOne(rq.job).title, status |-> rq.status,
          relatedId |-> rq.appId, isRead |-> FALSE]

SuccessCode(o) == IF o = "apply" THEN 201 ELSE 200
SuccessMessage(o) ==
    IF o = "apply" THEN "Application submitted successfully"
    ELSE "Application status updated successfully"

\* createNotification: notificationCollection(db), notifications.insertOne; an
\* error is logged and thrown again.  Then the handler's success response.
Notify(r) ==
    /\ reqs[r].pc = "n_insert"
    /\ \E ok \in Outcomes(r) :
         IF ~ok THEN Throw(r)
         ELSE /\ notifs' = notifs \cup {NotificationOf(reqs[r])}
              /\ nextNotif' = nextNotif + 1
              /\ Respond(r, SuccessCode(reqs[r].op), SuccessMessage(reqs[r].op))
              /\ UNCHANGED <<jobs, apps, nextApp, now, side>>

\* ---- POST /applications/apply ----------------------------------------------
ApplyArrive(r) ==
    /\ nextApp + Cardinality(ApplyInFlight) <= MaxApps
    /\ nextNotif + Cardinality(NotifyInFlight) <= MaxNotifs
    /\ \E u \in Applicants, k \in JobIdInputs, cl \in CoverLetters :
         Arrive(r, "apply", u, k, BadId, "", cl, "", "undef")

\* the checks of the request body, before any store call
ApplyBegin(r) ==
    /\ reqs[r].op = "apply" /\ reqs[r].pc = "start"
    /\ IF reqs[r].jobId = MissingId \/ reqs[r].coverLetter = ""
       THEN Respond(r, 400, "Job ID and cover letter are required")
       ELSE IF ~IsValidObjectId(reqs[r].jobId)
       THEN Respond(r, 400, "Invalid job ID")
       ELSE Continue(r, "a_findJob")
    /\ UNCHANGED <<store, now, side>>

\* jobs.findOne({_id})
ApplyFindJob(r) ==
    /\ reqs[r].pc = "a_findJob"
    /\ \E ok \in Outcomes(r) :
         IF ~ok THEN Throw(r)
         ELSE /\ IF FindJob(reqs[r].jobId) = {}
                 THEN Respond(r, 404, "Job not found")
                 ELSE Await(r, [reqs[r] EXCEPT
                                  !.job = JobRead(FindJob(reqs[r].jobId))],
                            "a_findExisting")
              /\ UNCHANGED <<store, now, side>>

\* applications.findOne({jobId, applicantId}), then users.findOne
ApplyFindExisting(r) ==
    /\ reqs[r].pc = "a_findExisting"
    /\ \E ok \in Outcomes(r) :
         IF ~ok THEN Throw(r)
         ELSE /\ IF FindApplication(reqs[r].jobId, reqs[r].user) # {}
                 THEN Respond(r, 400, "You have already applied for this job")
                 ELSE Continue(r, "a_insert")
              /\ UNCHANGED <<store, now, side>>

\* faulty variant of the document below: the requester as the employer
NewApplicationOfRequester(rq) ==
    [id |-> nextApp, jobId |-> rq.jobId, applicantId |-> rq.user,
     employerId |-> rq.user, status |-> "Pending", lastStatusUpdate |-> now]

\* the application document: employerId is copied from the job just read
NewApplication(rq) ==
    [id |-> nextApp, jobId |-> rq.jobId, applicantId |-> rq.user,
     employerId |-> TheOne(rq.job).employerId, status |-> "Pending",
     lastStatusUpdate |-> now]

\* faulty variant of the insert below: the handler goes on to the $push with
\* the id it is about to use, the document not being in the collection
ApplyInsertNotAwaited(r) ==
    /\ reqs[r].pc = "a_insert"
    /\ Await(r, [reqs[r] EXCEPT !.newId = nextApp], "a_push")
    /\ UNCHANGED <<store, now, side>>

\* applications.insertOne
ApplyInsert(r) ==
    /\ reqs[r].pc = "a_insert"
    /\ \E ok \in Outcomes(r) :
         IF ~ok THEN Throw(r)
         ELSE /\ apps' = apps \cup {NewApplication(reqs[r])}
              /\ nextApp' = nextApp + 1
              /\ Await(r, [reqs[r] EXCEPT !.newId = nextApp], "a_push")
              /\ UNCHANGED <<jobs, notifs, nextNotif, now, side>>

Push(list, id) == Append(list, id)

\* jobs.updateOne({_id}, {$push: {applications}})
ApplyPush(r) ==
    /\ reqs[r].pc = "a_push"
    /\ \E ok \in Outcomes(r) :
         IF ~ok THEN Throw(r)
         ELSE /\ jobs' = {IF j.id = reqs[r].jobId
                          THEN [j EXCEPT !.applications = Push(@, reqs[r].newId)]
                          ELSE j : j \in jobs}
              /\ Continue(r, "n_insert")
              /\ UNCHANGED <<apps, notifs, nextApp, nextNotif, now, side>>

\* ---- DELETE /applications/:id (withdraw) -----------------------------------
WithdrawArrive(r) ==
    \E u \in Users, a \in AppIdInputs :
        Arrive(r, "withdraw", u, BadId, a, "", "", "", "undef")

WithdrawBegin(r) ==
    /\ reqs[r].op = "withdraw" /\ reqs[r].pc = "start"
    /\ IF ~IsValidObjectId(reqs[r].appId)
       THEN Respond(r, 400, "Invalid application ID")
       ELSE Continue(r, "w_find")
    /\ UNCHANGED <<store, now, side>>

\* faulty variant of the check below: refuses rejected applications only
NotRejectedYet(a) == a.status # "Rejected"

\* `application.status !== 'Pending'` refuses the withdrawal
IsPending(a) == a.status = "Pending"

\* applications.findOne({_id}) and the ownership and status checks
WithdrawFind(r) ==
    /\ reqs[r].pc = "w_find"
    /\ \E ok \in Outcomes(r) :
         IF ~ok THEN Throw(r)
         ELSE /\ LET found == FindApp(reqs[r].appId) IN
                 IF found = {}
                 THEN Respond(r, 404, "Application not found")
                 ELSE IF TheOne(found).applicantId # reqs[r].user
                 THEN Respond(r, 403,
                              "Not authorized to withdraw this application")
                 ELSE IF ~IsPending(TheOne(found))
                 THEN Respond(r, 400, "Can only withdraw pending applications")
                 ELSE Await(r, [reqs[r] EXCEPT !.app = AppRead(found)],
                            "w_delete")
              /\ UNCHANGED <<store, now, side>>

\* applications.deleteOne({_id})
WithdrawDelete(r) ==
    /\ reqs[r].pc = "w_delete"
    /\ \E ok \in Outcomes(r) :
         IF ~ok THEN Throw(r)
         ELSE /\ apps' = apps \ FindApp(reqs[r].appId)
              /\ IF FindApp(reqs[r].appId) # {}
                 THEN Continue(r, "w_pull")
                 ELSE Respond(r, 400, "Failed to withdraw application")
              /\ UNCHANGED <<jobs, notifs, nextApp, nextNotif, now, side>>

\* the hex digits of an id as a client may write them; ObjectId.isValid and
\* new ObjectId accept both
Spellings == {"lower", "upper"}

\* insertedId.toString(): the id in lower-case hex digits
toString(id) == <<id, "lower">>

\* req.params.id, as the client wrote it
ParamId(rq) == <<rq.appId, rq.spelling>>

\* $pull removes the elements equal to the given string
Pull(list, str) == SelectSeq(list, LAMBDA x : toString(x) # str)

\* jobs.updateOne({_id: application.jobId}, {$pull: {applications}})
WithdrawPull(r) ==
    /\ reqs[r].pc = "w_pull"
    /\ \E ok \in Outcomes(r) :
         IF ~ok THEN Throw(r)
         ELSE /\ jobs' = {IF j.id = TheOne(reqs[r].app).jobId
                          THEN [j EXCEPT !.applications =
                                              Pull(@, ParamId(reqs[r]))]
                          ELSE j : j \in jobs}
              /\ Respond(r, 200, "Application withdrawn successfully")
              /\ UNCHANGED <<apps, notifs, nextApp, nextNotif, now, side>>

\* ---- PUT /applications/:id/status ------------------------------------------
StatusArrive(r) ==
    /\ nextNotif + Cardinality(NotifyInFlight) <= MaxNotifs
    /\ \E u \in Users, a \in AppIdInputs, s \in StatusInputs :
         Arrive(r, "setStatus", u, BadId, a, s, "", "", "undef")

\* faulty variant of the check below: every status passes
AnyStatus(s) == TRUE

\* validStatuses.includes(status)
StatusAccepted(s) == s \in validStatuses

\* the checks of the id and of the status, before any store call
StatusBegin(r) ==
    /\ reqs[r].op = "setStatus" /\ reqs[r].pc = "start"
    /\ IF ~IsValidObjectId(reqs[r].appId)
       THEN Respond(r, 400, "Invalid application ID")
       ELSE IF reqs[r].status = ""
       THEN Respond(r, 400, "Status is required")
       ELSE IF ~StatusAccepted(reqs[r].status)
       THEN Respond(r, 400, "Invalid status")
       ELSE Continue(r, "s_find")
    /\ UNCHANGED <<store, now, side>>

\* faulty variant of the check below: the applicant passes as well
IsParty(a, u) == u \in {a.employerId, a.applicantId}

\* `application.employerId !== req.user.id` refuses the update
IsEmployerOf(a, u) == a.employerId = u

\* applications.findOne({_id}) and the ownership check
StatusFind(r) ==
    /\ reqs[r].pc = "s_find"
    /\ \E ok \in Outcomes(r) :
         IF ~ok THEN Throw(r)
         ELSE /\ LET found == FindApp(reqs[r].appId) IN
                 IF found = {}
                 THEN Respond(r, 404, "Application not found")
                 ELSE IF ~IsEmployerOf(TheOne(found), reqs[r].user)
                 THEN Respond(r, 403,
                              "Not authorized to update this application")
                 ELSE Await(r, [reqs[r] EXCEPT !.app = AppRead(found)],
                            "s_update")
              /\ UNCHANGED <<store, now, side>>

\* faulty variant of the patch below: a hired application keeps its status
SetStatusUnlessHired(a, s) ==
    IF a.status = "Hired" THEN a
    ELSE [a EXCEPT !.status = s, !.lastStatusUpdate = now]

\* {$set: {status, lastStatusUpdate: new Date().toISOString()}}
SetStatusFields(a, s) == [a EXCEPT !.status = s, !.lastStatusUpdate = now]

\* applications.updateOne({_id}, {$set: {status, lastStatusUpdate}})
StatusUpdate(r) ==
    /\ reqs[r].pc = "s_update"
    /\ \E ok \in Outcomes(r) :
         IF ~ok THEN Throw(r)
         ELSE /\ apps' = {IF a.id = reqs[r].appId
                          THEN SetStatusFields(a, reqs[r].status)
                          ELSE a : a \in apps}
              /\ IF apps' # apps
                 THEN Continue(r, "s_findJob")
                 ELSE Respond(r, 400, "Failed to update application status")
              /\ UNCHANGED <<jobs, notifs, nextApp, nextNotif, now, side>>

\* users.findOne(applicantId), jobs.findOne(jobId), `if (applicant && job)`
StatusFindJob(r) ==
    /\ reqs[r].pc = "s_findJob"
    /\ \E ok \in Outcomes(r) :
         IF ~ok THEN Throw(r)
         ELSE /\ LET job == FindJob(TheOne(reqs[r].app).jobId) IN
                 IF TheOne(reqs[r].app).applicantId \in Users /\ job # {}
                 THEN Await(r, [reqs[r] EXCEPT !.job = JobRead(job)], "n_insert")
                 ELSE Respond(r, 200, "Application status updated successfully")
              /\ UNCHANGED <<store, now, side>>

\* ---- PUT /jobs/:id and DELETE /jobs/:id -------------------------------------
UpdateJobArrive(r) ==
    \E u \in Users, k \in JobIdInputs \ {MissingId},
       t \in TitleInputs, act \in ActiveInputs :
        Arrive(r, "updateJob", u, k, BadId, "", "", t, act)

DeleteJobArrive(r) ==
    \E u \in Users, k \in JobIdInputs \ {MissingId} :
        Arrive(r, "deleteJob", u, k, BadId, "", "", "", "undef")

\* the isEmployer middleware and the id check
JobBegin(r) ==
    /\ reqs[r].op \in {"updateJob", "deleteJob"} /\ reqs[r].pc = "start"
    /\ IF Role(reqs[r].user) # "employer"
       THEN Respond(r, 403, "Access denied. Employers only.")
       ELSE IF ~IsValidObjectId(reqs[r].jobId)
       THEN Respond(r, 400, "Invalid job ID")
       ELSE Continue(r, IF reqs[r].op = "updateJob" THEN "u_find" ELSE "d_find")
    /\ UNCHANGED <<store, now, side>>

\* jobs.findOne({_id, employerId: req.user.id})
UpdateJobFind(r) ==
    /\ reqs[r].pc = "u_find"
    /\ \E ok \in Outcomes(r) :
         IF ~ok THEN Throw(r)
         ELSE /\ IF FindOwnJob(reqs[r].jobId, reqs[r].user) = {}
                 THEN Respond(r, 404,
                              "Job not found or not authorized to update")
                 ELSE Continue(r, "u_update")
              /\ UNCHANGED <<store, now, side>>

\* the $set of updateData: only the fields present in the body
SetJobFields(j, rq) ==
    [j EXCEPT !.title = IF rq.title # "" THEN rq.title ELSE @,
              !.active = IF rq.active # "undef" THEN rq.active = "true" ELSE @]

\* jobs.updateOne({_id}, {$set: updateData})
UpdateJobUpdate(r) ==
    /\ reqs[r].pc = "u_update"
    /\ \E ok \in Outcomes(r) :
         IF ~ok THEN Throw(r)
         ELSE /\ jobs' = {IF j.id = reqs[r].jobId
                          THEN SetJobFields(j, reqs[r]) ELSE j : j \in jobs}
              /\ IF jobs' # jobs
                 THEN Respond(r, 200, "Job updated successfully")
                 ELSE Respond(r, 400, "No changes made to job")
              /\ UNCHANGED <<apps, notifs, nextApp, nextNotif, now, side>>

\* jobs.findOne({_id, employerId: req.user.id})
DeleteJobFind(r) ==
    /\ reqs[r].pc = "d_find"
    /\ \E ok \in Outcomes(r) :
         IF ~ok THEN Throw(r)
         ELSE /\ IF FindOwnJob(reqs[r].jobId, reqs[r].user) = {}
                 THEN Respond(r, 404,
                              "Job not found or not authorized to delete")
                 ELSE Continue(r, "d_delete")
              /\ UNCHANGED <<store, now, side>>

\* jobs.deleteOne({_id})
DeleteJobDelete(r) ==
    /\ reqs[r].pc = "d_delete"
    /\ \E ok \in Outcomes(r) :
         IF ~ok THEN Throw(r)
         ELSE /\ jobs' = jobs \ FindJob(reqs[r].jobId)
              /\ IF FindJob(reqs[r].jobId) # {}
                 THEN Respond(r, 200, "Job deleted successfully")
                 ELSE Respond(r, 400, "Failed to delete job")
              /\ UNCHANGED <<apps, notifs, nextApp, nextNotif, now, side>>

\* the wall clock behind new Date().toISOString() advances
Tick ==
    /\ now < MaxClock
    /\ now' = now + 1
    /\ UNCHANGED <<store, reqs, resp, sent, side>>

Step(r) ==
    \/ ApplyArrive(r)
    \/ ApplyBegin(r)
    \/ ApplyFindJob(r)
    \/ ApplyFindExisting(r)
    \/ ApplyInsert(r)
    \/ ApplyPush(r)
    \/ Notify(r)
    \/ WithdrawArrive(r)
    \/ WithdrawBegin(r)
    \/ WithdrawFind(r)
    \/ WithdrawDelete(r)
    \/ WithdrawPull(r)
    \/ StatusArrive(r)
    \/ StatusBegin(r)
    \/ StatusFind(r)
    \/ StatusUpdate(r)
    \/ StatusFindJob(r)
    \/ UpdateJobArrive(r)
    \/ DeleteJobArrive(r)
    \/ JobBegin(r)
    \/ UpdateJobFind(r)
    \/ UpdateJobUpdate(r)
    \/ DeleteJobFind(r)
    \/ DeleteJobDelete(r)

\* concurrent requests, interleaved at their store calls
Next == (\E r \in Workers : Step(r)) \/ Tick

Spec == Init /\ [][Next]_vars

\* one caller issuing one request after the other
SeqNext == Step(Client) \/ Tick

SeqSpec == Init /\ [][SeqNext]_vars

\* ---- POST /jobs/saved/:jobId and DELETE /jobs/saved/:jobId -----------------
\* a well-formed id of a job that was never posted
AbsentJobId == MaxJobs + 1
SavedJobIdInputs == {BadId, AbsentJobId} \cup JobIds

\* the unique index on (userId, jobId) is created by savedJobsCollection only,
\* which no route calls: the routes use db.collection('savedJobs') as it is
savedJobsUniqueIndex == FALSE

SaveInFlight == {r \in Slots : reqs[r].op = "save"}

SaveArrive(r) ==
    /\ nextSaved + Cardinality(SaveInFlight) <= MaxSaved
    /\ \E u \in Users, k \in SavedJobIdInputs :
         Arrive(r, "save", u, k, BadId, "", "", "", "undef")

UnsaveArrive(r) ==
    /\ \E u \in Users, k \in SavedJobIdInputs :
         Arrive(r, "unsave", u, k, BadId, "", "", "", "undef")

\* connectDB; `new ObjectId(jobId)` throws on a malformed id, inside the try
SaveBegin(r) ==
    /\ reqs[r].op = "save" /\ reqs[r].pc = "start"
    /\ IF ~IsValidObjectId(reqs[r].jobId)
       THEN Respond(r, 500, ErrorMessage("save"))
       ELSE Continue(r, "sv_findJob")
    /\ UNCHANGED <<store, now, side>>

\* jobs.findOne({_id})
SaveFindJob(r) ==
    /\ reqs[r].pc = "sv_findJob"
    /\ \E ok \in Outcomes(r) :
         IF ~ok THEN Throw(r)
         ELSE /\ IF FindJob(reqs[r].jobId) = {}
                 THEN Respond(r, 404, "Job not found")
                 ELSE Continue(r, "sv_findExisting")
              /\ UNCHANGED <<store, now, side>>

\* faulty variants of the lookup below: one that queries a collection that
\* holds nothing, one that forgets the user
FindSavedNowhere(u, k) == {}
FindSavedOfAnyone(u, k) == {x \in saved : x.jobId = k}

FindSaved(u, k) == {x \in saved : x.userId = u /\ x.jobId = k}

\* faulty variant of the step below: the `return` before the 200 response is
\* missing, so the handler goes on to the insert after answering
SaveFindExistingNoReturn(r) ==
    /\ reqs[r].pc = "sv_findExisting"
    /\ \E ok \in Outcomes(r) :
         IF ~ok THEN Throw(r)
         ELSE /\ IF FindSaved(reqs[r].user, reqs[r].jobId) # {}
                 THEN /\ reqs' = [reqs EXCEPT ![r].pc = "sv_insert"]
                      /\ resp' = IF r = Client
                                 THEN [code |-> 200, msg |-> "Job already saved"]
                                 ELSE resp
                      /\ sent' = IF r = Client THEN sent + 1 ELSE sent
                 ELSE Continue(r, "sv_insert")
              /\ UNCHANGED <<store, now, side>>

\* savedJobs.findOne({userId, jobId})
SaveFindExisting(r) ==
    /\ reqs[r].pc = "sv_findExisting"
    /\ \E ok \in Outcomes(r) :
         IF ~ok THEN Throw(r)
         ELSE /\ IF FindSaved(reqs[r].user, reqs[r].jobId) # {}
                 THEN Respond(r, 200, "Job already saved")
                 ELSE Continue(r, "sv_insert")
              /\ UNCHANGED <<store, now, side>>

\* savedJobs.insertOne({userId, jobId, savedDate}); a unique index, where the
\* collection has one, makes the insert of a second row for the pair reject
SaveInsert(r) ==
    /\ reqs[r].pc = "sv_insert"
    /\ \E ok \in Outcomes(r) :
         IF ~ok \/ (savedJobsUniqueIndex
                      /\ FindSaved(reqs[r].user, reqs[r].jobId) # {})
         THEN Throw(r)
         ELSE /\ saved' = saved \cup {[id |-> nextSaved,
                                       userId |-> reqs[r].user,
                                       jobId |-> reqs[r].jobId]}
              /\ nextSaved' = nextSaved + 1
              /\ Respond(r, 201, "Job saved successfully")
              /\ UNCHANGED notSaved

UnsaveBegin(r) ==
    /\ reqs[r].op = "unsave" /\ reqs[r].pc = "start"
    /\ Continue(r, "us_delete")
    /\ UNCHANGED <<store, now, side>>

\* deleteOne removes the first matching document
FirstOf(S) == {x \in S : \A y \in S : x.id <= y.id}

\* savedJobs.deleteOne({userId, jobId})
UnsaveDelete(r) ==
    /\ reqs[r].pc = "us_delete"
    /\ \E ok \in Outcomes(r) :
         IF ~ok THEN Throw(r)
         ELSE /\ saved' = saved \ FirstOf(FindSaved(reqs[r].user, reqs[r].jobId))
              /\ IF saved' = saved
                 THEN Respond(r, 404, "Saved job not found")
                 ELSE Respond(r, 200, "Job removed from saved jobs")
              /\ UNCHANGED <<notSaved, nextSaved>>

SavedStep(r) ==
    \/ SaveArrive(r)
    \/ SaveBegin(r)
    \/ SaveFindJob(r)
    \/ SaveFindExisting(r)
    \/ SaveInsert(r)
    \/ UnsaveArrive(r)
    \/ UnsaveBegin(r)
    \/ UnsaveDelete(r)

\* the job postings come and go while jobs are saved and unsaved
JobDeleteStep(r) ==
    \/ DeleteJobArrive(r)
    \/ JobBegin(r)
    \/ DeleteJobFind(r)
    \/ DeleteJobDelete(r)

\* concurrent save / unsave requests
SavedNext == \E r \in Workers : SavedStep(r) \/ JobDeleteStep(r)

SavedSpec == Init /\ [][SavedNext]_vars

\* save / unsave requests issued one after the other
SavedSeqNext == SavedStep(Client) \/ JobDeleteStep(Client)

SavedSeqSpec == Init /\ [][SavedSeqNext]_vars

\* ---- POST /reviews and GET /reviews/jobseeker/:id --------------------------
\* the jobseekerId of the request: missing, malformed, or the id of a user
SubjectInputs == {"", "bad", "j1", "e2"}
RatingInputs == {NoRating, Num(2), Num(5), Num(6), Str(4)}

ReviewInFlight == {r \in Slots : reqs[r].op = "review"}

ReviewArrive(r) ==
    /\ reqs[r].pc = "idle"
    /\ nextReview + Cardinality(ReviewInFlight) <= MaxReviews
    /\ \E u \in Users, sb \in SubjectInputs, rt \in RatingInputs :
         reqs' = [reqs EXCEPT ![r] =
                    [IdleReq EXCEPT !.op = "review", !.pc = "start",
                                    !.user = u, !.subject = sb, !.rating = rt]]
    /\ resp' = IF r = Client THEN NoResponse ELSE resp
    /\ sent' = IF r = Client THEN 0 ELSE sent
    /\ UNCHANGED <<notReview, reviewStore>>

\* `!rating`: absent, or the number 0
Falsy(rt) == rt.kind = "none" \/ (rt.kind = "number" /\ rt.val = 0)

\* `rating < 1 || rating > 5`: a string of digits is compared as its number
OutOfRange(rt) == rt.val < 1 \/ rt.val > 5

\* isEmployer, then the check of the body
ReviewBegin(r) ==
    /\ reqs[r].op = "review" /\ reqs[r].pc = "start"
    /\ IF Role(reqs[r].user) # "employer"
       THEN Respond(r, 403, "Access denied. Employers only.")
       ELSE IF reqs[r].subject = "" \/ Falsy(reqs[r].rating)
               \/ OutOfRange(reqs[r].rating)
       THEN Respond(r, 400, "Jobseeker ID and valid rating (1-5) are required")
       ELSE Continue(r, "rv_check")
    /\ UNCHANGED <<notReview, reviewStore>>

FindReview(e, k) == {x \in reviews : x.employerId = e /\ x.jobseekerId = k}

\* hasEmployerReviewedJobseeker: `new ObjectId(jobseekerId)` throws on a
\* malformed id; reviews.findOne({employerId, jobseekerId})
ReviewCheck(r) ==
    /\ reqs[r].pc = "rv_check"
    /\ \E ok \in Outcomes(r) :
         IF ~ok \/ reqs[r].subject = "bad" THEN Throw(r)
         ELSE IF FindReview(reqs[r].user, reqs[r].subject) # {}
         THEN Respond(r, 400, "You have already reviewed this jobseeker")
         ELSE Continue(r, "rv_insert")
    /\ UNCHANGED <<notReview, reviewStore>>

\* createReview: reviews.insertOne(reviewData), the rating stored as received
ReviewInsert(r) ==
    /\ reqs[r].pc = "rv_insert"
    /\ \E ok \in Outcomes(r) :
         IF ~ok THEN Throw(r)
         ELSE /\ reviews' = reviews \cup {[id |-> nextReview,
                                           employerId |-> reqs[r].user,
                                           jobseekerId |-> reqs[r].subject,
                                           rating |-> reqs[r].rating]}
              /\ nextReview' = nextReview + 1
              /\ Respond(r, 201, "Review submitted successfully")
              /\ UNCHANGED <<notReview, lastAvg>>

RatingArrive(r) ==
    /\ reqs[r].pc = "idle"
    /\ \E sb \in SubjectInputs \ {""} :
         reqs' = [reqs EXCEPT ![r] =
                    [IdleReq EXCEPT !.op = "rating", !.pc = "start",
                                    !.subject = sb]]
    /\ resp' = IF r = Client THEN NoResponse ELSE resp
    /\ sent' = IF r = Client THEN 0 ELSE sent
    /\ UNCHANGED <<notReview, reviewStore>>

\* ObjectId.isValid(jobseekerId)
RatingBegin(r) ==
    /\ reqs[r].op = "rating" /\ reqs[r].pc = "start"
    /\ IF reqs[r].subject = "bad"
       THEN Respond(r, 400, "Invalid jobseeker ID")
       ELSE Continue(r, "rt_find")
    /\ UNCHANGED <<notReview, reviewStore>>

\* getJobseekerReviews and the users.findOne of each review's employer
RatingFind(r) ==
    /\ reqs[r].pc = "rt_find"
    /\ \E ok \in Outcomes(r) :
         IF ~ok THEN Throw(r) ELSE Continue(r, "rt_aggregate")
    /\ UNCHANGED <<notReview, reviewStore>>

RECURSIVE SumRatings(_)
SumRatings(S) ==
    IF S = {} THEN 0
    ELSE LET x == CHOOSE y \in S : TRUE IN x.rating.val + SumRatings(S \ {x})

\* $avg: the mean of the numeric values of the group, the non-numeric ones
\* ignored; null when the group has no numeric value
Avg(S) ==
    LET numeric == {x \in S : x.rating.kind = "number"} IN
    IF numeric = {} THEN Null
    ELSE Quot(SumRatings(numeric), Cardinality(numeric))

\* getJobseekerAverageRating: $match, $group {$avg, $sum: 1}
getJobseekerAverageRating(k) ==
    LET result == {x \in reviews : x.jobseekerId = k} IN
    IF result = {}
    THEN [subject |-> k, averageRating |-> Quot(0, 1), reviewCount |-> 0]
    ELSE [subject |-> k, averageRating |-> Avg(result),
          reviewCount |-> Cardinality(result)]

\* the aggregate call, then the 200 response carrying its answer
RatingAggregate(r) ==
    /\ reqs[r].pc = "rt_aggregate"
    /\ \E ok \in Outcomes(r) :
         IF ~ok THEN Throw(r)
         ELSE /\ lastAvg' = getJobseekerAverageRating(reqs[r].subject)
              /\ Respond(r, 200, "")
              /\ UNCHANGED <<notReview, reviews, nextReview>>

ReviewStep(r) ==
    \/ ReviewArrive(r)
    \/ ReviewBegin(r)
    \/ ReviewCheck(r)
    \/ ReviewInsert(r)
    \/ RatingArrive(r)
    \/ RatingBegin(r)
    \/ RatingFind(r)
    \/ RatingAggregate(r)

\* concurrent review and rating requests
ReviewNext == \E r \in Workers : ReviewStep(r)

ReviewSpec == Init /\ [][ReviewNext]_vars

\* ---- GET /applications/my-applications and /employer-applications ---------
\* what a listed Application carries as `job` when its Job is gone: nothing
\* in routes/applications.js, a placeholder in the other copy of the route
ListingVariants == {"undefined", "Unknown Job"}

ListArrive(r) ==
    \E u \in Users, o \in {"myApplications", "employerApplications"} :
        Arrive(r, o, u, BadId, BadId, "", "", "", "undef")

ListBegin(r) ==
    /\ reqs[r].op \in {"myApplications", "employerApplications"}
    /\ reqs[r].pc = "start"
    /\ Continue(r, "l_findApps")
    /\ UNCHANGED <<store, now, side>>

\* applications.find({applicantId}) / applications.find({employerId})
ListFindApps(r) ==
    /\ reqs[r].pc = "l_findApps"
    /\ \E ok \in Outcomes(r) :
         IF ~ok THEN Throw(r)
         ELSE /\ LET mine == IF reqs[r].op = "myApplications"
                             THEN {a \in apps : a.applicantId = reqs[r].user}
                             ELSE {a \in apps : a.employerId = reqs[r].user}
                 IN Await(r, [reqs[r] EXCEPT !.list =
                                 {[id |-> a.id, jobId |-> a.jobId] : a \in mine}],
                          "l_findJobs")
              /\ UNCHANGED <<store, now, side>>

\* jobs.find({_id: {$in: jobIds}}) (and users.find for the employer), then the
\* applications are combined with their jobs and sent
ListFindJobs(r) ==
    /\ reqs[r].pc = "l_findJobs"
    /\ \E ok \in Outcomes(r) :
         IF ~ok THEN Throw(r)
         ELSE /\ \E missing \in ListingVariants :
                   listing' = {[id |-> x.id,
                                job |-> IF FindJob(x.jobId) # {} THEN "found"
                                        ELSE missing] : x \in reqs[r].list}
              /\ Respond(r, 200, "")
              /\ UNCHANGED <<store, now, savedStore, reviewStore, connection>>

\* applications are submitted, jobs deleted and applications listed, one
\* request after the other
ListSeqNext ==
    \/ ApplyArrive(Client)
    \/ ApplyBegin(Client)
    \/ ApplyFindJob(Client)
    \/ ApplyFindExisting(Client)
    \/ ApplyInsert(Client)
    \/ ApplyPush(Client)
    \/ Notify(Client)
    \/ DeleteJobArrive(Client)
    \/ JobBegin(Client)
    \/ DeleteJobFind(Client)
    \/ DeleteJobDelete(Client)
    \/ ListArrive(Client)
    \/ ListBegin(Client)
    \/ ListFindApps(Client)
    \/ ListFindJobs(Client)

ListSeqSpec == Init /\ [][ListSeqNext]_vars

\* ---- PUT /notifications/:id/mark-read, PUT /notifications/mark-all-read,
\* ---- DELETE /notifications/:id ----------------------------------------------
NotifIdInputs == {BadId} \cup (1..MaxNotifs)

FindNotif(id) == {n \in notifs : n.id = id}

NotifArrive(r) ==
    /\ reqs[r].pc = "idle"
    /\ \E u \in Users, o \in {"markRead", "deleteNotif"}, n \in NotifIdInputs :
         reqs' = [reqs EXCEPT ![r] =
                    [IdleReq EXCEPT !.op = o, !.pc = "start", !.user = u,
                                    !.notifId = n]]
    /\ resp' = IF r = Client THEN NoResponse ELSE resp
    /\ sent' = IF r = Client THEN 0 ELSE sent
    /\ UNCHANGED <<store, now, side>>

MarkAllArrive(r) ==
    \E u \in Users : Arrive(r, "markAllRead", u, BadId, BadId, "", "", "", "undef")

\* ObjectId.isValid(notificationId)
NotifBegin(r) ==
    /\ reqs[r].op \in {"markRead", "deleteNotif"} /\ reqs[r].pc = "start"
    /\ IF ~IsValidObjectId(reqs[r].notifId)
       THEN Respond(r, 400, "Invalid notification ID")
       ELSE Continue(r, IF reqs[r].op = "markRead" THEN "m_find" ELSE "dn_find")
    /\ UNCHANGED <<store, now, side>>

\* faulty variant of the check below: the sender passes as well
IsRecipientOrSender(n, u) == u \in {n.recipientId, n.senderId}

\* `notification.recipientId !== req.user.id` refuses the request
IsRecipient(n, u) == n.recipientId = u

\* notifications.findOne({_id}) and the ownership check
NotifFind(r) ==
    /\ reqs[r].pc \in {"m_find", "dn_find"}
    /\ \E ok \in Outcomes(r) :
         IF ~ok THEN Throw(r)
         ELSE /\ LET found == FindNotif(reqs[r].notifId) IN
                 IF found = {}
                 THEN Respond(r, 404, "Notification not found")
                 ELSE IF ~IsRecipient(TheOne(found), reqs[r].user)
                 THEN Respond(r, 403,
                              IF reqs[r].op = "markRead"
                              THEN "Not authorized to update this notification"
                              ELSE "Not authorized to delete this notification")
                 ELSE Continue(r, IF reqs[r].op = "markRead" THEN "m_update"
                                  ELSE "dn_delete")
              /\ UNCHANGED <<store, now, side>>

\* faulty variant of the update below: flips the flag
ToggledRead(n) == [n EXCEPT !.isRead = ~@]

\* {$set: {isRead: true}}
MarkedRead(n) == [n EXCEPT !.isRead = TRUE]

\* faulty variant of the count below: the documents the filter matched
matchedCount(before, after) == IF before # {} THEN 1 ELSE 0

\* result.modifiedCount of an updateOne: the documents it changed
modifiedCount(before, after) == IF after # before THEN 1 ELSE 0

\* notifications.updateOne({_id}, {$set: {isRead: true}})
MarkReadUpdate(r) ==
    /\ reqs[r].pc = "m_update"
    /\ \E ok \in Outcomes(r) :
         IF ~ok THEN Throw(r)
         ELSE /\ notifs' = {IF n.id = reqs[r].notifId
                            THEN MarkedRead(n) ELSE n : n \in notifs}
              /\ IF modifiedCount(notifs, notifs') = 1
                 THEN Respond(r, 200, "Notification marked as read")
                 ELSE Respond(r, 400, "Failed to update notification")
              /\ UNCHANGED <<jobs, apps, nextApp, nextNotif, now, side>>

\* notifications.deleteOne({_id})
DeleteNotifDelete(r) ==
    /\ reqs[r].pc = "dn_delete"
    /\ \E ok \in Outcomes(r) :
         IF ~ok THEN Throw(r)
         ELSE /\ notifs' = notifs \ FindNotif(reqs[r].notifId)
              /\ IF notifs' # notifs
                 THEN Respond(r, 200, "Notification deleted successfully")
                 ELSE Respond(r, 400, "Failed to delete notification")
              /\ UNCHANGED <<jobs, apps, nextApp, nextNotif, now, side>>

MarkAllBegin(r) ==
    /\ reqs[r].op = "markAllRead" /\ reqs[r].pc = "start"
    /\ Continue(r, "ma_update")
    /\ UNCHANGED <<store, now, side>>

\* notifications.updateMany({recipientId, isRead: false}, {$set: {isRead: true}})
MarkAllUpdate(r) ==
    /\ reqs[r].pc = "ma_update"
    /\ \E ok \in Outcomes(r) :
         IF ~ok THEN Throw(r)
         ELSE /\ notifs' = {IF n.recipientId = reqs[r].user /\ ~n.isRead
                            THEN [n EXCEPT !.isRead = TRUE] ELSE n : n \in notifs}
              /\ Respond(r, 200, "All notifications marked as read")
              /\ UNCHANGED <<jobs, apps, nextApp, nextNotif, now, side>>

NotifStep(r) ==
    \/ NotifArrive(r)
    \/ MarkAllArrive(r)
    \/ NotifBegin(r)
    \/ NotifFind(r)
    \/ MarkReadUpdate(r)
    \/ DeleteNotifDelete(r)
    \/ MarkAllBegin(r)
    \/ MarkAllUpdate(r)

\* the requests that create notifications
NotifyingStep(r) ==
    \/ ApplyArrive(r)
    \/ ApplyBegin(r)
    \/ ApplyFindJob(r)
    \/ ApplyFindExisting(r)
    \/ ApplyInsert(r)
    \/ ApplyPush(r)
    \/ StatusArrive(r)
    \/ StatusBegin(r)
    \/ StatusFind(r)
    \/ StatusUpdate(r)
    \/ StatusFindJob(r)
    \/ Notify(r)

\* notifications are created, read and deleted, one request after the other
NotifSeqNext == NotifyingStep(Client) \/ NotifStep(Client)

NotifSeqSpec == Init /\ [][NotifSeqNext]_vars

\* ---- connectDB (db.js) ------------------------------------------------------
\* `if (!db)` is false: the call returns the handle at once; otherwise
\* client.connect() is invoked and the caller awaits it
ConnectCall(r) ==
    /\ callers[r].pc \in {"out", "returned"}
    /\ IF db # Undefined
       THEN /\ callers' = [callers EXCEPT ![r] = [pc |-> "returned", got |-> db]]
            /\ UNCHANGED connectCalls
       ELSE /\ callers' = [callers EXCEPT ![r] =
                             [pc |-> "connecting", got |-> Undefined]]
            /\ connectCalls' = connectCalls + 1
    /\ UNCHANGED <<store, now, reqs, resp, sent, savedStore, reviewStore,
                   listing,
                   db, dbHandles>>

\* client.connect() has resolved: `db = client.db('CareMatch'); return db;`
\* client.db() builds a new Db object on every call
ConnectResume(r) ==
    /\ callers[r].pc = "connecting"
    /\ dbHandles' = dbHandles + 1
    /\ db' = dbHandles'
    /\ callers' = [callers EXCEPT ![r] = [pc |-> "returned", got |-> db']]
    /\ UNCHANGED <<store, now, reqs, resp, sent, savedStore, reviewStore,
                   listing,
                   connectCalls>>

\* the handler that called connectDB ends; its `const db` goes out of scope
HandlerEnds(r) ==
    /\ callers[r].pc = "returned"
    /\ callers' = [callers EXCEPT ![r] = NotCalling]
    /\ UNCHANGED <<store, now, reqs, resp, sent, savedStore, reviewStore,
                   listing,
                   db, connectCalls, dbHandles>>

\* every handler calls connectDB; the first calls may start together
ConnectNext ==
    \E r \in Slots : ConnectCall(r) \/ ConnectResume(r) \/ HandlerEnds(r)

ConnectSpec == Init /\ [][ConnectNext]_vars

\* ---- an application's status over a longer history --------------------------
\* a status request arrives after an Apply and a first status change have
\* each left their notification
StatusArriveLater(r) ==
    /\ nextNotif + Cardinality(NotifyInFlight) <= MaxNotifs + 1
    /\ \E u \in Users, a \in AppIdInputs, s \in StatusInputs :
         Arrive(r, "setStatus", u, BadId, a, s, "", "", "undef")

\* one caller applies, has the status changed several times, and withdraws
StatusSeqNext ==
    \/ ApplyArrive(Client)
    \/ ApplyBegin(Client)
    \/ ApplyFindJob(Client)
    \/ ApplyFindExisting(Client)
    \/ ApplyInsert(Client)
    \/ ApplyPush(Client)
    \/ Notify(Client)
    \/ WithdrawArrive(Client)
    \/ WithdrawBegin(Client)
    \/ WithdrawFind(Client)
    \/ WithdrawDelete(Client)
    \/ WithdrawPull(Client)
    \/ StatusArriveLater(Client)
    \/ StatusBegin(Client)
    \/ StatusFind(Client)
    \/ StatusUpdate(Client)
    \/ StatusFindJob(Client)
    \/ Tick

StatusSeqSpec == Init /\ [][StatusSeqNext]_vars

\* ---- apply, withdraw, apply again --------------------------------------------
\* a Withdraw request whose id is written in either spelling
WithdrawArriveSpelled(r) ==
    /\ reqs[r].pc = "idle"
    /\ \E u \in Users, a \in AppIdInputs, sp \in Spellings :
         reqs' = [reqs EXCEPT ![r] =
                    [IdleReq EXCEPT !.op = "withdraw", !.pc = "start",
                                    !.user = u, !.appId = a, !.spelling = sp]]
    /\ resp' = IF r = Client THEN NoResponse ELSE resp
    /\ sent' = IF r = Client THEN 0 ELSE sent
    /\ UNCHANGED <<store, now, side>>

\* one caller applies and withdraws, again and again
RoundTripNext ==
    \/ ApplyArrive(Client)
    \/ ApplyBegin(Client)
    \/ ApplyFindJob(Client)
    \/ ApplyFindExisting(Client)
    \/ ApplyInsert(Client)
    \/ ApplyPush(Client)
    \/ Notify(Client)
    \/ WithdrawArriveSpelled(Client)
    \/ WithdrawBegin(Client)
    \/ WithdrawFind(Client)
    \/ WithdrawDelete(Client)
    \/ WithdrawPull(Client)

RoundTripSpec == Init /\ [][RoundTripNext]_vars

\* ---- every request is answered -----------------------------------------------
\* the six operations, requested by the job's employer or by the jobseeker
LiveOps == {"apply", "withdraw", "setStatus", "save", "unsave", "deleteJob"}
LiveUsers == {Poster, "j1"}

\* a request of the single caller arrives
ArriveStep(r) ==
    /\ reqs[r].pc = "idle"
    /\ \E o \in LiveOps, u \in LiveUsers :
       \E k \in IF o \in {"withdraw", "setStatus"} THEN {BadId}
                ELSE {BadId} \cup JobIds,
          a \in IF o \in {"withdraw", "setStatus"} THEN AppIdInputs
                ELSE {BadId},
          s \in IF o = "setStatus" THEN {"Bogus", "Hired"} ELSE {""} :
         /\ o = "apply" => nextApp + Cardinality(ApplyInFlight) <= MaxApps
         /\ o \in {"apply", "setStatus"}
              => nextNotif + Cardinality(NotifyInFlight) <= MaxNotifs
         /\ o = "save" => nextSaved + Cardinality(SaveInFlight) <= MaxSaved
         /\ reqs' = [reqs EXCEPT ![r] =
                       [IdleReq EXCEPT
                          !.op = o, !.pc = "start", !.user = u,
                          !.jobId = k, !.appId = a, !.status = s,
                          !.coverLetter = IF o = "apply" THEN "Hi" ELSE ""]]
    /\ resp' = IF r = Client THEN NoResponse ELSE resp
    /\ sent' = IF r = Client THEN 0 ELSE sent
    /\ UNCHANGED <<store, now, side>>

\* a handler runs from one awaited store call to the next
HandlerStep(r) ==
    \/ ApplyBegin(r)
    \/ ApplyFindJob(r)
    \/ ApplyFindExisting(r)
    \/ ApplyInsert(r)
    \/ ApplyPush(r)
    \/ Notify(r)
    \/ WithdrawBegin(r)
    \/ WithdrawFind(r)
    \/ WithdrawDelete(r)
    \/ WithdrawPull(r)
    \/ StatusBegin(r)
    \/ StatusFind(r)
    \/ StatusUpdate(r)
    \/ StatusFindJob(r)
    \/ SaveBegin(r)
    \/ SaveFindJob(r)
    \/ SaveFindExisting(r)
    \/ SaveInsert(r)
    \/ UnsaveBegin(r)
    \/ UnsaveDelete(r)
    \/ JobBegin(r)
    \/ DeleteJobFind(r)
    \/ DeleteJobDelete(r)

LiveNext == ArriveStep(Client) \/ HandlerStep(Client)

\* every awaited store call settles (the driver resolves it or rejects it
\* after its timeout), and the handler then runs on
LiveSpec == Init /\ [][LiveNext]_vars /\ WF_vars(HandlerStep(Client))

\* ---- properties ------------------------------------------------------------
\* the single caller's request in flight, and the step that answers it
Cl == reqs[Client]
Answered == reqs[Client].pc # "idle" /\ reqs'[Client].pc = "idle"
StoreDown == resp'.code = 500

ApplicationsOf(k, u) == {a \in apps : a.jobId = k /\ a.applicantId = u}
IdsOf(list) == {list[i] : i \in 1..Len(list)}

C2_OnePerPair ==
    \A a \in apps, b \in apps :
        (a.jobId = b.jobId /\ a.applicantId = b.applicantId) => a = b

\* C3: while a Withdraw request of the applicant is in flight for an
\* Application whose stored status is not 'Pending', no step changes the
\* applications or the jobs (the document and the owning Job's list stay as
\* they were), and the request is answered 400 'Can only withdraw pending
\* applications' (500 if its own store call rejects).
C3_WithdrawNotPending ==
    [][(/\ Cl.op = "withdraw"
        /\ \E a \in apps : /\ a.id = Cl.appId
                           /\ a.applicantId = Cl.user
                           /\ a.status # "Pending")
       => /\ apps' = apps /\ jobs' = jobs
          /\ Answered =>
               \/ resp' = [code |-> 400,
                           msg |-> "Can only withdraw pending applications"]
               \/ StoreDown]_vars

C3_Witness ==
    /\ resp = [code |-> 400, msg |-> "Can only withdraw pending applications"]
    /\ \E a \in apps : a.status = "Hired" /\ a.applicantId = "j1"
                       /\ \E j \in jobs : a.id \in IdsOf(j.applications)

\* C4: a SetApplicationStatus request whose status is outside {Pending,
\* Reviewed, Interviewing, Hired, Rejected} never gets past its validation:
\* its only step answers 400 and changes no application and no notification,
\* whoever the requester is and whether or not the application exists.
C4_InvalidStatusRejected ==
    [][(/\ Cl.op = "setStatus"
        /\ Cl.status \notin {"Pending", "Reviewed", "Interviewing", "Hired",
                             "Rejected"}
        /\ reqs' # reqs)
       => /\ Answered /\ resp'.code = 400
          /\ apps' = apps /\ notifs' = notifs]_vars

C4_Witness ==
    /\ resp = [code |-> 400, msg |-> "Invalid status"]
    /\ apps # {}

\* C5: the step of an Apply that inserts adds exactly one Application, with
\* status 'Pending' and the employerId of the target Job; no other step of an
\* Apply adds one; and the step that answers 201 adds exactly one Notification,
\* of type 'job_application', unread, addressed to that Job's employerId and
\* related to the Application this request inserted.
C5_ApplyEffects ==
    [][Cl.op = "apply" =>
        /\ (Cl.pc = "a_insert" /\ Cl'.pc = "a_push") =>
              \E a \in apps' \ apps :
                  /\ apps' = apps \cup {a}
                  /\ a.status = "Pending" /\ a.id = Cl'.newId
                  /\ a.jobId = Cl.jobId /\ a.applicantId = Cl.user
                  /\ \E j \in jobs : j.id = Cl.jobId
                                     /\ j.employerId = a.employerId
        /\ ~(Cl.pc = "a_insert" /\ Cl'.pc = "a_push") => apps' = apps
        /\ (Answered /\ resp'.code = 201) =>
              \E n \in notifs' \ notifs :
                  /\ notifs' = notifs \cup {n}
                  /\ n.type = "job_application" /\ ~n.isRead
                  /\ \E a \in apps : a.id = Cl.newId /\ n.relatedId = a.id
                  /\ \E j \in jobs : j.id = Cl.jobId
                                     /\ j.employerId = n.recipientId
        /\ ~(Answered /\ resp'.code = 201) => notifs' = notifs]_vars

C5_Witness ==
    /\ resp = [code |-> 201, msg |-> "Application submitted successfully"]
    /\ \E n \in notifs, a \in apps :
          /\ n.type = "job_application" /\ n.relatedId = a.id
          /\ n.recipientId = a.employerId /\ a.status = "Pending"

\* C6: every SetApplicationStatus request that is answered 200 adds, in the
\* step that answers it, an 'application_status' Notification addressed to the
\* Application's applicantId and naming the new status; also when the
\* Application's Job has been deleted beforehand.
C6_StatusChangeNotifies ==
    [][(Cl.op = "setStatus" /\ Answered /\ resp'.code = 200)
       => \E n \in notifs' \ notifs :
             /\ n.type = "application_status"
             /\ n.status = Cl.status
             /\ n.relatedId = Cl.appId
             /\ \E a \in apps : a.id = Cl.appId
                                /\ a.applicantId = n.recipientId]_vars

\* C7: once the Application insert of an Apply or the status patch of a
\* SetApplicationStatus has succeeded and the request has reached its
\* notification write, the request is answered with success (201 / 200)
\* whether or not that write succeeds.
C7_NotificationFailureSwallowed ==
    [][(Cl.pc = "n_insert" /\ Answered) => resp'.code \in {200, 201}]_vars

\* C8: once the Application insert of an Apply or the Application delete of a
\* Withdraw has succeeded, the request is not answered with a failure by the
\* step that writes the Job's applications list: if that step answers at all,
\* it answers with success, whether or not the $push / $pull succeeds.
C8_ListWriteFailureSwallowed ==
    [][(Cl.pc \in {"a_push", "w_pull"} /\ Answered)
       => resp'.code \in {200, 201}]_vars

\* no Apply or Withdraw request is between its two writes
Quiescent == \A r \in Slots : reqs[r].pc \notin {"a_push", "w_pull"}

\* C9: in every quiescent state reached without a failed store write, each
\* existing Job's applications list holds exactly the ids of the existing
\* Applications of that Job, each of them once, under any interleaving of
\* Apply, Withdraw, SetApplicationStatus, UpdateJob and DeleteJob requests.
C9_ListsExact ==
    Quiescent =>
        \A j \in jobs :
            /\ IdsOf(j.applications) = {a.id : a \in {b \in apps : b.jobId = j.id}}
            /\ Len(j.applications) = Cardinality(IdsOf(j.applications))

\* C10: every id in a Job's applications list is the id of an Application
\* that has been inserted before (the ids handed out so far are
\* 1..nextApp-1): within an Apply the insert precedes the $push.  The witness
\* is the intermediate state a concurrent reader can observe: the Application
\* exists, its Job exists, and the Job's list does not hold its id yet.
C10_InsertBeforePush ==
    \A j \in jobs : \A i \in IdsOf(j.applications) : i \in 1..(nextApp - 1)

C10_Witness ==
    \E r \in Workers :
        /\ reqs[r].op = "apply" /\ reqs[r].pc = "a_push"
        /\ \E a \in apps, j \in jobs :
              /\ a.id = reqs[r].newId /\ j.id = a.jobId
              /\ a.id \notin IdsOf(j.applications)

\* C11: an Apply inserts its Application (and goes on to its Notification)
\* only when the target Job exists with active = true; requests are issued one
\* after the other, so the Job at the insert is the Job the precondition
\* check saw.
C11_ApplyNeedsActiveJob ==
    [][(Cl.op = "apply" /\ apps' # apps)
       => \E j \in jobs : j.id = Cl.jobId /\ j.active]_vars

SavedRows(u, k) == {x \in saved : x.userId = u /\ x.jobId = k}

C13_OneSavePerPair ==
    \A x \in saved, y \in saved :
        (x.userId = y.userId /\ x.jobId = y.jobId) => x = y

\* C14: an UnsaveJob for a (userId, jobId) without a row changes nothing and
\* is answered 404 'Saved job not found'; an UnsaveJob for an existing row
\* removes rows of the requester for that Job only, exactly one when it is
\* answered 200 (500 if its store call rejects).
C14_UnsaveOwnRowOnly ==
    [][Cl.op = "unsave" =>
        IF SavedRows(Cl.user, Cl.jobId) = {}
        THEN /\ saved' = saved
             /\ Answered => \/ resp' = [code |-> 404,
                                        msg |-> "Saved job not found"]
                            \/ StoreDown
        ELSE /\ saved' \subseteq saved
             /\ (saved \ saved') \subseteq SavedRows(Cl.user, Cl.jobId)
             /\ Answered => \/ /\ resp'.code = 200
                               /\ Cardinality(saved \ saved') = 1
                            \/ StoreDown /\ saved' = saved]_vars

C14_Witness ==
    /\ resp = [code |-> 200, msg |-> "Job removed from saved jobs"]
    /\ \E x \in saved : x.id = 1 /\ nextSaved = 3

\* C15: at any time the reviews collection holds at most one Review per
\* (employerId, jobseekerId), also when two requests of the same employer for
\* the same jobseeker interleave between the existence check and the insert.
C15_OneReviewPerPair ==
    \A x \in reviews, y \in reviews :
        (x.employerId = y.employerId /\ x.jobseekerId = y.jobseekerId)
            => x = y

RECURSIVE RatingTotal(_)
RatingTotal(S) ==
    IF S = {} THEN 0
    ELSE LET x == CHOOSE y \in S : TRUE IN x.rating.val + RatingTotal(S \ {x})

\* C16: whenever getJobseekerAverageRating answers, its count is the number
\* of Reviews of that jobseeker and its average is the mean of their ratings
\* (average * count = the sum of the ratings); with no such Review the answer
\* is average 0 and count 0.
C16_AverageIsMean ==
    [][(\E r \in Slots : reqs[r].pc = "rt_aggregate" /\ reqs'[r].pc = "idle")
       => LET of == {x \in reviews : x.jobseekerId = lastAvg'.subject}
              avg == lastAvg'.averageRating
          IN /\ lastAvg'.reviewCount = Cardinality(of)
             /\ ~avg.null
             /\ IF of = {} THEN avg.num = 0
                ELSE avg.num * Cardinality(of) = RatingTotal(of) * avg.den]_vars

\* C17: DeleteJob by the owning employer is answered 200 also when
\* Applications reference the Job, and no step of it changes an Application;
\* a listing of Applications answered afterwards returns every Application of
\* the requester and carries the placeholder 'Unknown Job' for each whose Job
\* is gone.
C17_DeleteKeepsApplications ==
    [][/\ Cl.op = "deleteJob" =>
            /\ apps' = apps
            /\ (Cl.pc = "d_delete" /\ ~StoreDown) =>
                   /\ resp' = [code |-> 200, msg |-> "Job deleted successfully"]
                   /\ jobs' = {j \in jobs : j.id # Cl.jobId}
       /\ (Cl.op \in {"myApplications", "employerApplications"}
             /\ Answered /\ ~StoreDown) =>
            /\ resp'.code = 200
            /\ {x.id : x \in listing'} =
                 {a.id : a \in {b \in apps :
                     IF Cl.op = "myApplications" THEN b.applicantId = Cl.user
                     ELSE b.employerId = Cl.user}}
            /\ \A x \in listing' : \A a \in apps :
                 a.id = x.id =>
                    x.job = IF \E j \in jobs : j.id = a.jobId THEN "found"
                            ELSE "Unknown Job"]_vars

\* C18: while a well-formed SetApplicationStatus request of a user other than
\* the Application's employerId, or a Withdraw request of a user other than
\* its applicantId, is in flight, no step changes the applications, the jobs
\* or the notifications, and the request is answered 403 (500 if its own
\* store call rejects); so a request that does change an Application comes
\* from its owner for that operation.
C18_OwnerOnly ==
    [][/\ (/\ Cl.op = "setStatus"
           /\ Cl.status \in {"Pending", "Reviewed", "Interviewing", "Hired",
                             "Rejected"}
           /\ \E a \in apps : a.id = Cl.appId /\ a.employerId # Cl.user)
          => /\ apps' = apps /\ jobs' = jobs /\ notifs' = notifs
             /\ Answered =>
                  \/ resp' = [code |-> 403,
                              msg |-> "Not authorized to update this application"]
                  \/ StoreDown
       /\ (/\ Cl.op = "withdraw"
           /\ \E a \in apps : a.id = Cl.appId /\ a.applicantId # Cl.user)
          => /\ apps' = apps /\ jobs' = jobs /\ notifs' = notifs
             /\ Answered =>
                  \/ resp' = [code |-> 403,
                              msg |-> "Not authorized to withdraw this application"]
                  \/ StoreDown
       /\ (Cl.op \in {"setStatus", "withdraw"} /\ apps' # apps)
          => \E a \in apps :
                /\ a.id = Cl.appId
                /\ Cl.user = IF Cl.op = "setStatus" THEN a.employerId
                             ELSE a.applicantId]_vars

C18_Witness ==
    /\ resp = [code |-> 403, msg |-> "Not authorized to update this application"]
    /\ \E a \in apps : a.status = "Pending" /\ a.applicantId = "j1"

\* C19: MarkRead and Delete leave every notification as it is and answer 403
\* when the requester is not its recipient; when they do change something,
\* it is the requester's own notification and no other; MarkAllRead marks
\* exactly the requester's notifications read and touches no one else's.
C19_RecipientOnly ==
    [][/\ \A n \in notifs :
            (/\ Cl.op \in {"markRead", "deleteNotif"}
             /\ n.id = Cl.notifId
             /\ n.recipientId # Cl.user)
            => /\ notifs' = notifs
               /\ Answered => (resp'.code = 403 \/ StoreDown)
       /\ (Cl.op \in {"markRead", "deleteNotif"} /\ notifs' # notifs)
            => /\ \E n \in notifs : n.id = Cl.notifId /\ n.recipientId = Cl.user
               /\ \A m \in notifs : m.id # Cl.notifId => m \in notifs'
               /\ notifs' \subseteq
                    notifs \cup {[n EXCEPT !.isRead = TRUE] : n \in notifs}
       /\ (Cl.op = "markAllRead" /\ Answered /\ ~StoreDown)
            => /\ resp'.code = 200
               /\ notifs' = {IF n.recipientId = Cl.user
                             THEN [n EXCEPT !.isRead = TRUE] ELSE n : n \in notifs}
      ]_vars

\* a request to mark someone else's notification read was refused while two
\* recipients had unread notifications
C19_Witness ==
    /\ resp = [code |-> 403, msg |-> "Not authorized to update this notification"]
    /\ \E n, m \in notifs : n.recipientId # m.recipientId /\ ~n.isRead /\ ~m.isRead


\* C20: an UpdateJob or DeleteJob request of an employer who does not own
\* the job leaves the job as it is and, unless the store fails, is answered
\* 403, while a request for a job that does not exist is answered 404; a
\* requester who is not an employer is answered 403 before any store call.
C20_NotOwnerForbidden ==
    [][(Cl.op \in {"updateJob", "deleteJob"})
       => /\ (Role(Cl.user) # "employer" /\ Cl.pc = "start"
              /\ reqs'[Client] # Cl)
               => (resp'.code = 403 /\ Answered)
          /\ \A j \in jobs :
               (j.id = Cl.jobId /\ j.employerId # Cl.user)
               => /\ jobs' = jobs
                  /\ (Role(Cl.user) = "employer" /\ Answered /\ ~StoreDown)
                       => resp'.code = 403
          /\ (IsValidObjectId(Cl.jobId) /\ Role(Cl.user) = "employer"
              /\ (\A j \in jobs : j.id # Cl.jobId) /\ Answered /\ ~StoreDown)
               => resp'.code = 404
      ]_vars

\* C21: a SaveJob or UnsaveJob request with a malformed job id is answered
\* 400 by the handler's first step, before any store call, and the saved
\* jobs stay as they are.
C21_MalformedIdRejected ==
    [][(/\ Cl.op \in {"save", "unsave"}
        /\ ~IsValidObjectId(Cl.jobId)
        /\ reqs'[Client] # Cl)
       => /\ Cl.pc = "start"
          /\ Answered
          /\ resp'.code = 400
          /\ saved' = saved
      ]_vars

\* C22: across all calls of connectDB, concurrent ones included,
\* client.connect() is invoked at most once and all callers hold the same
\* db handle.
C22_ConnectOnce ==
    /\ connectCalls <= 1
    /\ \A r, q \in Slots :
         (callers[r].pc = "returned" /\ callers[q].pc = "returned")
         => callers[r].got = callers[q].got

\* C23: an Apply request of a user whose role is not jobseeker is never
\* answered with success and writes no application, no entry of a job's
\* applications list and no notification.
C23_ApplyJobseekersOnly ==
    [][(Cl.op = "apply" /\ Role(Cl.user) # "jobseeker")
       => /\ apps' = apps
          /\ jobs' = jobs
          /\ notifs' = notifs
          /\ Answered => resp'.code \notin {200, 201}
      ]_vars

NotifIds(S) == {n.id : n \in S}

\* C24: a notification appears only in the step that ends an Apply or a
\* SetApplicationStatus request with success, and it is unread; a stored
\* notification changes only by isRead going from false to true; a
\* notification disappears only in a Delete request of its recipient.
C24_NotificationLifecycle ==
    [][/\ \A n \in notifs' :
            n.id \notin NotifIds(notifs)
            => /\ ~n.isRead
               /\ Cl.op \in {"apply", "setStatus"}
               /\ Answered
               /\ resp'.code \in {200, 201}
               /\ \E a \in apps : a.id = n.relatedId
       /\ \A n \in notifs, m \in notifs' :
            (m.id = n.id /\ m # n)
            => (~n.isRead /\ m = [n EXCEPT !.isRead = TRUE])
       /\ \A n \in notifs :
            n.id \notin NotifIds(notifs')
            => /\ Cl.op = "deleteNotif"
               /\ Cl.user = n.recipientId
               /\ Cl.notifId = n.id
      ]_vars

\* one notification has been deleted and another one has been read
C24_Witness ==
    /\ Cardinality(notifs) = 1
    /\ nextNotif = 3
    /\ \E n \in notifs : n.isRead
    /\ reqs[Client].pc = "idle"

\* C25: whenever an application disappears from the store, its stored
\* status in that moment is Pending, under every interleaving of a Withdraw
\* with a SetApplicationStatus.
C25_OnlyPendingDeleted ==
    [][\A a \in apps :
         (\A b \in apps' : b.id # a.id) => a.status = "Pending"]_vars

\* C26: in every reachable state each application whose job still exists
\* carries that job's employerId, and no step changes the employerId of a
\* job or the employerId, jobId or applicantId of an application.
C26_EmployerSnapshot ==
    /\ [](\A a \in apps, j \in jobs :
            a.jobId = j.id => a.employerId = j.employerId)
    /\ [][/\ \A a \in apps, b \in apps' :
               b.id = a.id => /\ b.employerId = a.employerId
                              /\ b.jobId = a.jobId
                              /\ b.applicantId = a.applicantId
          /\ \A j \in jobs, k \in jobs' :
               k.id = j.id => k.employerId = j.employerId
         ]_vars

\* an application of a job has had its status set and its job updated
C26_Witness ==
    \E a \in apps, j \in jobs :
        /\ a.jobId = j.id
        /\ a.status = "Hired"
        /\ ~j.active
        /\ j.applications = <<a.id>>

\* the step taken is a step of the single caller's request
Moves == reqs'[Client] # reqs[Client]

\* the single caller's step ends in the catch block
Fails == Answered /\ StoreDown

\* the owning employer's status request passes the lookup whatever the stored
\* status is, and the applicant's Withdraw of a Pending application deletes
\* it and is answered 200
C27_Around ==
    /\ (/\ Cl.pc = "s_find" /\ Moves /\ ~Fails
        /\ \E a \in apps : a.id = Cl.appId /\ a.employerId = Cl.user)
       => Cl'.pc = "s_update"
    /\ (Cl.op = "setStatus" /\ Cl.pc \in {"s_findJob", "n_insert"}
        /\ Answered /\ ~StoreDown)
       => resp'.code = 200
    /\ (/\ Cl.pc = "w_find" /\ Moves /\ ~Fails
        /\ \E a \in apps : /\ a.id = Cl.appId /\ a.applicantId = Cl.user
                           /\ a.status = "Pending")
       => Cl'.pc = "w_delete"
    /\ (Cl.pc = "w_delete" /\ Moves /\ ~Fails)
       => (Cl'.pc = "w_pull" /\ \A b \in apps' : b.id # Cl.appId)
    /\ (Cl.pc = "w_pull" /\ Answered /\ ~StoreDown) => resp'.code = 200

\* C27 as stated: the patch of the owning employer's status request is
\* carried out for every target status whatever the stored status is, so that
\* a Hired or Rejected application can go back to Pending and be withdrawn.
C27_AnyTargetAccepted ==
    [][/\ C27_Around
       /\ (Cl.pc = "s_update" /\ Moves /\ ~Fails)
          => /\ ~Answered
             /\ \E b \in apps' : b.id = Cl.appId /\ b.status = Cl.status
      ]_vars

\* C27, amended: the same, except that a patch which leaves the document
\* as it is (same status, same lastStatusUpdate instant) is answered 400
\* 'Failed to update application status'.
C27_AcceptedUnlessNoChange ==
    [][/\ C27_Around
       /\ (Cl.pc = "s_update" /\ Moves /\ ~Fails)
          => \A a \in apps :
               a.id = Cl.appId
               => IF a.status = Cl.status /\ a.lastStatusUpdate = now
                  THEN /\ apps' = apps
                       /\ resp' = [code |-> 400,
                                   msg |-> "Failed to update application status"]
                  ELSE /\ ~Answered
                       /\ \E b \in apps' : b.id = a.id /\ b.status = Cl.status
      ]_vars

\* an application went to Hired, back to Pending, and was then withdrawn
C27_Witness ==
    /\ resp = [code |-> 200, msg |-> "Application withdrawn successfully"]
    /\ apps = {}
    /\ \E n, m \in notifs : /\ n.type = "application_status"
                            /\ n.status = "Hired"
                            /\ m.type = "application_status"
                            /\ m.status = "Pending"
                            /\ m.id > n.id

\* C28: when a Withdraw is answered 200, no application of the applicant for
\* that job is left, no job's applications list contains the withdrawn id
\* any more, and the notifications are as before, all of them
\* 'job_application'; an Apply that then finds no application of its pair
\* goes on to insert a fresh Pending application under an id never used.
C28_ApplyWithdrawRoundTrip ==
    [][/\ (Cl.op = "withdraw" /\ Answered /\ resp'.code = 200)
          => /\ \A a \in apps' :
                  ~(a.jobId = TheOne(Cl.app).jobId /\ a.applicantId = Cl.user)
             /\ \A j \in jobs' : Cl.appId \notin IdsOf(j.applications)
             /\ notifs' = notifs
             /\ \A n \in notifs' : n.type = "job_application"
       /\ (/\ Cl.op = "apply" /\ Cl.pc = "a_findExisting" /\ Moves /\ ~Fails
           /\ ApplicationsOf(Cl.jobId, Cl.user) = {})
          => Cl'.pc = "a_insert"
       /\ (Cl.pc = "a_insert" /\ Moves /\ ~Fails)
          => \E a \in apps' \ apps :
                /\ a.status = "Pending"
                /\ a.jobId = Cl.jobId /\ a.applicantId = Cl.user
                /\ \A b \in apps : b.id # a.id
                /\ \A j \in jobs : a.id \notin IdsOf(j.applications)
      ]_vars

\* C29: a MarkRead of the recipient on a notification that is already read
\* reaches the update, which changes nothing; the request is answered 400
\* 'Failed to update notification' and the notification stays read.
C29_MarkReadTwice ==
    [][\A n \in notifs :
         (/\ Cl.op = "markRead" /\ n.id = Cl.notifId
          /\ n.recipientId = Cl.user /\ n.isRead
          /\ Moves /\ ~Fails)
         => /\ Cl.pc = "start" => Cl'.pc = "m_find"
            /\ Cl.pc = "m_find" => Cl'.pc = "m_update"
            /\ Cl.pc = "m_update"
                 => resp' = [code |-> 400,
                             msg |-> "Failed to update notification"]
            /\ notifs' = notifs
      ]_vars

\* the second MarkRead of a notification has been answered
C29_Witness ==
    /\ resp = [code |-> 400, msg |-> "Failed to update notification"]
    /\ \E n \in notifs : n.isRead

\* C30: a request of the single caller never has two responses, its handler
\* ends only when exactly one response has been sent, and every request in
\* flight is eventually answered, also when store calls fail.
C30_ExactlyOneResponse ==
    /\ [](sent <= 1)
    /\ [][(Cl.pc # "idle" /\ Cl'.pc = "idle") => sent' = 1]_vars
    /\ [](reqs[Client].pc # "idle"
            => <>(reqs[Client].pc = "idle" /\ sent = 1))

\* a request was answered from the catch block after saved jobs and
\* applications had been written
C30_Witness ==
    /\ resp.code = 500
    /\ sent = 1
    /\ reqs[Client].pc = "idle"
    /\ saved # {}
    /\ apps # {}

====
